---------------------------- MODULE Spec2Model ----------------------------
(***************************************************************************)
(* The join-and-aggregation pipeline of src/src_python/process_data.py.    *)
(*                                                                         *)
(* JSON values are encoded by type.  A string field holds a TLA+ string,   *)
(* with NoneS for Python's None (JSON null) and AbsentS for a key that is  *)
(* not in the object; an integer field holds an integer, with NoneI and    *)
(* AbsentI likewise.  A free text (the four consideration fields) is a     *)
(* record [kind, chars]: kind "str" with the sequence of its characters,   *)
(* kind "none" for None or an absent key, kind "num" for a non-string.     *)
(* A nested object is a record with a kind field: "obj", "null", "absent". *)
(***************************************************************************)
EXTENDS Integers, Sequences, FiniteSets, TLC

VARIABLES
    target_dir,                     \* the input files of the target directory
    pc,                             \* position of process_data in its body
    idx,                            \* index of the running for-loop
    overview_map,
    country_map,
    prioritization_map,
    component_descriptions,
    processed_assessments,
    dashboard_assessments,
    assessment_considerations_map,
    joined_data,
    grouped,
    country_assessments,
    written,                        \* files opened for writing by this run
    out,                            \* contents of the four derived files
    run,                            \* number of the running call of process_data
    first_out,                      \* the derived files as the first call left them
    server,                         \* the pages the API answers with, in order
    next_url,                       \* fetch_paginated_data: next page, 0 for None
    all_results,                    \* fetch_paginated_data: all_results
    fetch_pc                        \* position of fetch_paginated_data

vars == << target_dir, pc, idx, overview_map, country_map, prioritization_map,
           component_descriptions, processed_assessments, dashboard_assessments,
           assessment_considerations_map, joined_data, grouped,
           country_assessments, written, out, run, first_out, server, next_url,
           all_results, fetch_pc >>

FetchVars == << server, next_url, all_results, fetch_pc >>

-----------------------------------------------------------------------------
(* Python values *)

NoneS == "None"
AbsentS == "Absent"
NoneI == -1
AbsentI == -2

\* d.get(k): None when the key is absent
GetS(v) == IF v = AbsentS THEN NoneS ELSE v
GetI(v) == IF v = AbsentI THEN NoneI ELSE v

\* d.get(k, default): the default only when the key is absent
GetDefS(v, d) == IF v = AbsentS THEN d ELSE v
GetDefI(v, d) == IF v = AbsentI THEN d ELSE v

\* Python truthiness of an Optional[str] and of an Optional[int]
TruthyS(v) == v # NoneS /\ v # AbsentS /\ v # ""
TruthyI(v) == v # NoneI /\ v # AbsentI /\ v # 0

\* a or b
OrS(a, b) == IF TruthyS(a) THEN a ELSE b
OrI(a, b) == IF TruthyI(a) THEN a ELSE b

Range(s) == { s[i] : i \in 1..Len(s) }

-----------------------------------------------------------------------------
(* contains_affirmative_word: characters are named tokens; "i_acute" is    *)
(* U+00ED, "I_acute" is U+00CD, "comb_acute" is U+0301.                    *)

\* str.lower() on one character
LowerChar(c) ==
    CASE c = "Y" -> "y"
      [] c = "E" -> "e"
      [] c = "S" -> "s"
      [] c = "I" -> "i"
      [] c = "N" -> "n"
      [] c = "I_acute" -> "i_acute"
      [] OTHER -> c

Lower(s) == [ i \in 1..Len(s) |-> LowerChar(s[i]) ]

\* canonical decomposition of one character
DecomposeChar(c) ==
    CASE c = "i_acute" -> << "i", "comb_acute" >>
      [] c = "I_acute" -> << "I", "comb_acute" >>
      [] OTHER -> << c >>

RECURSIVE NFD(_)
NFD(s) == IF s = << >> THEN << >> ELSE DecomposeChar(Head(s)) \o NFD(Tail(s))

\* unicodedata.category(c)
Category(c) == IF c = "comb_acute" THEN "Mn" ELSE "L"

NotMark(c) == Category(c) # "Mn"

StripMarks(s) == SelectSeq(s, NotMark)

\* needle in hay
Contains(hay, needle) ==
    \E i \in 0..(Len(hay) - Len(needle)) :
        SubSeq(hay, i + 1, i + Len(needle)) = needle

affirmative_words ==
    << << "y", "e", "s" >>, << "s", "i_acute" >>, << "s", "i" >> >>

NormalizeNoLower(s) == StripMarks(NFD(s))

NormalizeText(s) == StripMarks(NFD(Lower(s)))

WholeWordMatch(text) ==
    /\ text.kind = "str"
    /\ text.chars # << >>
    /\ \E w \in Range(affirmative_words) :
          LET n == NormalizeText(text.chars)
          IN  \E i \in 0..(Len(n) - Len(w)) :
                 /\ SubSeq(n, i + 1, i + Len(w)) = w
                 /\ (i = 0 \/ n[i] \in {" ", ","})
                 /\ (i + Len(w) = Len(n) \/ n[i + Len(w) + 1] \in {" ", ","})

contains_affirmative_word(text) ==
    IF text.kind # "str" \/ text.chars = << >>
    THEN FALSE
    ELSE \E w \in Range(affirmative_words) :
            Contains(NormalizeText(text.chars), w)

-----------------------------------------------------------------------------
(* Static tables *)

region_id_to_name_map(r) ==
    CASE r = 0 -> "Africa"
      [] r = 1 -> "Americas"
      [] r = 2 -> "Asia Pacific"
      [] r = 3 -> "Europe"
      [] r = 4 -> "MENA"
      [] OTHER -> NoneS

area_names(a) ==
    CASE a = 1 -> "Policy Strategy and Standards"
      [] a = 2 -> "Analysis and planning"
      [] a = 3 -> "Operational capacity"
      [] a = 4 -> "Coordination"
      [] a = 5 -> "Operations support"
      [] OTHER -> ""

-----------------------------------------------------------------------------
(* Lookup builders (process_data, lines 104-152) *)

\* the last position of seq whose key is k: dict construction is last-write-wins
LastAt(keys, k) ==
    CHOOSE i \in 1..Len(keys) :
        /\ keys[i] = k
        /\ \A j \in (i + 1)..Len(keys) : keys[j] # k

FirstAt(keys, k) ==
    CHOOSE i \in 1..Len(keys) :
        /\ keys[i] = k
        /\ \A j \in 1..(i - 1) : keys[j] # k

Keys(seq, field) == [ i \in 1..Len(seq) |-> seq[i][field] ]

\* {'centroid': ..., 'iso3': ..., 'region': ..., 'name': ...} of one country
CountryEntry(country) ==
    [ centroid |-> country.centroid,
      iso3     |-> country.iso3,
      region   |-> GetI(country.region),
      name     |-> GetS(country.name) ]

BuildCountryMap(results) ==
    LET keys == Keys(results, "iso3")
    IN  [ k \in Range(keys) |-> CountryEntry(results[LastAt(keys, k)]) ]

OverviewEntry(overview) ==
    [ assess_preparedness_of_country |->
          GetS(overview.assess_preparedness_of_country),
      assess_urban_aspect_of_country |->
          GetS(overview.assess_urban_aspect_of_country),
      assess_climate_environment_of_country |->
          GetS(overview.assess_climate_environment_of_country),
      assess_migration_aspect_of_country |->
          GetS(overview.assess_migration_aspect_of_country) ]

BuildOverviewMap(results) ==
    LET keys == Keys(results, "id")
    IN  [ k \in Range(keys) |-> OverviewEntry(results[LastAt(keys, k)]) ]

\* the component_details of every prioritized action response, in order
RECURSIVE AllResponses(_)
AllResponses(items) ==
    IF items = << >> THEN << >>
    ELSE Head(items).prioritized_action_responses \o AllResponses(Tail(items))

BuildComponentDescriptions(results) ==
    LET rs   == AllResponses(results)
        keys == [ i \in 1..Len(rs) |-> GetI(rs[i].component_details.id) ]
    IN  [ k \in { x \in Range(keys) : TruthyI(x) } |->
            [ componentTitle |-> GetS(rs[LastAt(keys, k)].component_details.title) ] ]

PrioritizedComponents(item) ==
    [ i \in 1..Len(item.prioritized_action_responses) |->
        LET response == item.prioritized_action_responses[i]
        IN  [ componentId    |-> GetI(response.component),
              componentTitle |-> GetS(response.component_details.title) ] ]

BuildPrioritizationMap(results) ==
    LET keys == [ i \in 1..Len(results) |-> GetI(results[i].overview) ]
    IN  [ k \in Range(keys) |->
            [ components |-> PrioritizedComponents(results[LastAt(keys, k)]) ] ]

-----------------------------------------------------------------------------
(* Assessment normalizer (lines 172-237) *)

\* component_response.get('component_details') or {}
NoDetails == [ kind |-> "absent", title |-> AbsentS, area |-> AbsentI ]
NoRating == [ kind |-> "absent", value |-> AbsentI, title |-> AbsentS ]

DetailsOrEmpty(d) == IF d.kind = "obj" THEN d ELSE NoDetails
RatingOrEmpty(r) == IF r.kind = "obj" THEN r ELSE NoRating

ProcessComponent(cr) ==
    LET component_details == DetailsOrEmpty(cr.component_details)
        rating_details    == RatingOrEmpty(cr.rating_details)
    IN  [ id        |-> cr.id,
          component |-> GetI(cr.component),
          rating    |-> cr.rating,
          rating_details |->
              [ value |-> GetI(rating_details.value),
                title |-> GetS(rating_details.title) ],
          component_details |->
              [ area  |-> GetI(component_details.area),
                title |-> GetS(component_details.title) ],
          urban_considerations |-> cr.urban_considerations,
          epi_considerations |-> cr.epi_considerations,
          climate_environmental_considerations |->
              cr.climate_environmental_considerations,
          migration_considerations |-> cr.migration_considerations,
          urban_considerations_simplified |->
              contains_affirmative_word(cr.urban_considerations),
          epi_considerations_simplified |->
              contains_affirmative_word(cr.epi_considerations),
          climate_environmental_considerations_simplified |->
              contains_affirmative_word(cr.climate_environmental_considerations),
          migration_considerations_simplified |->
              contains_affirmative_word(cr.migration_considerations) ]

ProcessArea(area_response) ==
    [ id |-> area_response.id,
      component_responses |->
          [ i \in 1..Len(area_response.component_responses) |->
              ProcessComponent(area_response.component_responses[i]) ] ]

HasResponses(area_response) == area_response.component_responses # << >>

ProcessAssessmentDroppingEmptyAreas(result) ==
    [ id |-> result.id,
      area_responses |->
          [ i \in 1..Len(SelectSeq(result.area_responses, HasResponses)) |->
              ProcessArea(SelectSeq(result.area_responses, HasResponses)[i]) ] ]

ProcessAssessment(result) ==
    [ id |-> result.id,
      area_responses |->
          [ i \in 1..Len(result.area_responses) |->
              ProcessArea(result.area_responses[i]) ] ]

ProcessAssessments(results) ==
    [ i \in 1..Len(results) |-> ProcessAssessment(results[i]) ]

-----------------------------------------------------------------------------
(* Dashboard flattener (lines 240-262) *)

RatingFromRatingField(cr) ==
    IF cr.rating.kind = "obj" THEN cr.rating ELSE NoRating

RatingSource(cr) == RatingOrEmpty(cr.rating_details)

DashboardComponent(cr) ==
    LET component_details == DetailsOrEmpty(cr.component_details)
        rating_details    == RatingSource(cr)
    IN  [ component_id   |-> GetI(cr.component),
          component_name |-> GetDefS(component_details.title, ""),
          area_id        |-> GetI(component_details.area),
          area_name      |-> area_names(GetI(component_details.area)),
          rating_value   |-> GetDefI(rating_details.value, 0),
          rating_title   |-> GetDefS(rating_details.title, "") ]

RECURSIVE FlattenAreas(_)
FlattenAreas(areas) ==
    IF areas = << >> THEN << >>
    ELSE [ i \in 1..Len(Head(areas).component_responses) |->
             DashboardComponent(Head(areas).component_responses[i]) ]
         \o FlattenAreas(Tail(areas))

DashboardAssessments(results) ==
    [ i \in 1..Len(results) |->
        [ assessment_id |-> results[i].id,
          components    |-> FlattenAreas(results[i].area_responses) ] ]

-----------------------------------------------------------------------------
(* Assessment-considerations map (lines 264-289) *)

\* all component responses of a processed assessment, across its areas
RECURSIVE AllComponents(_)
AllComponents(areas) ==
    IF areas = << >> THEN << >>
    ELSE Head(areas).component_responses \o AllComponents(Tail(areas))

ConsiderationsMigrationFromUrban(assessment) ==
    LET crs == Range(AllComponents(assessment.area_responses))
    IN  [ epi_considerations |->
              \E c \in crs : c.epi_considerations_simplified,
          climate_environmental_considerations |->
              \E c \in crs : c.climate_environmental_considerations_simplified,
          urban_considerations |->
              \E c \in crs : c.urban_considerations_simplified,
          migration_considerations |->
              \E c \in crs : c.urban_considerations_simplified ]

Considerations(assessment) ==
    LET crs == Range(AllComponents(assessment.area_responses))
    IN  [ epi_considerations |->
              \E c \in crs : c.epi_considerations_simplified,
          climate_environmental_considerations |->
              \E c \in crs : c.climate_environmental_considerations_simplified,
          urban_considerations |->
              \E c \in crs : c.urban_considerations_simplified,
          migration_considerations |->
              \E c \in crs : c.migration_considerations_simplified ]

BuildConsiderationsMap(processed) ==
    LET keys == Keys(processed, "id")
    IN  [ k \in Range(keys) |-> Considerations(processed[LastAt(keys, k)]) ]

NoConsiderations ==
    [ epi_considerations |-> FALSE,
      climate_environmental_considerations |-> FALSE,
      urban_considerations |-> FALSE,
      migration_considerations |-> FALSE ]

-----------------------------------------------------------------------------
(* Status joiner (lines 292-367) *)

\* country_map.get(country_iso3, {}): every .get on {} gives None
NoCentroid ==
    [ kind |-> "absent", coordinates |-> [ kind |-> "absent", items |-> << >> ] ]

NoCountry ==
    [ centroid |-> NoCentroid, iso3 |-> NoneS, region |-> NoneI, name |-> NoneS ]

CountryData(cmap, iso3) == IF iso3 \in DOMAIN cmap THEN cmap[iso3] ELSE NoCountry

\* truthiness of status.get('country_details', {}): a non-empty object
HasDetails(status) ==
    /\ status.country_details.kind = "obj"
    /\ \/ status.country_details.iso3 # AbsentS
       \/ status.country_details.name # AbsentS
       \/ status.country_details.region # AbsentI

InlineIso3(status) ==
    IF HasDetails(status) THEN GetS(status.country_details.iso3) ELSE NoneS

InlineName(status) ==
    IF HasDetails(status) THEN GetS(status.country_details.name) ELSE NoneS

InlineRegion(status) ==
    IF HasDetails(status) THEN GetI(status.country_details.region) ELSE NoneI

\* country_data.get('region') or (country_details.get('region') ...)
RegionId(country_region, inline_region) == OrI(country_region, inline_region)

LookupFirst(inline, looked_up) == OrS(looked_up, inline)

\* (country_details.get(field) ...) or country_data.get(field)
InlineOrLookup(inline, looked_up) == OrS(inline, looked_up)

\* centroid.get('coordinates', [None, None]) if centroid else [None, None]
Coordinates(centroid) ==
    IF centroid.kind = "obj" /\ centroid.coordinates.kind # "absent"
    THEN centroid.coordinates
    ELSE [ kind |-> "list", items |-> << NoneI, NoneI >> ]

\* coordinates[1] if len(coordinates) > 1 else None
Latitude(items) == IF Len(items) > 1 THEN items[2] ELSE NoneI

\* coordinates[0] if len(coordinates) > 0 else None
Longitude(items) == IF Len(items) > 0 THEN items[1] ELSE NoneI

\* the first dashboard assessment whose assessment_id is the foreign key
DashboardFor(das, fk) ==
    LET keys == Keys(das, "assessment_id")
    IN  IF fk \in Range(keys) THEN das[FirstAt(keys, fk)].components ELSE << >>

ConsiderationsFor(cmap, fk) ==
    IF fk \in DOMAIN cmap THEN cmap[fk] ELSE NoConsiderations

NoOverview ==
    [ assess_preparedness_of_country |-> NoneS,
      assess_urban_aspect_of_country |-> NoneS,
      assess_climate_environment_of_country |-> NoneS,
      assess_migration_aspect_of_country |-> NoneS ]

OverviewNeverFound(omap, id) == NoOverview

OverviewFor(omap, id) == IF id \in DOMAIN omap THEN omap[id] ELSE NoOverview

PrioritizationFor(pmap, id) == IF id \in DOMAIN pmap THEN pmap[id].components ELSE << >>

PhaseDisplayUnmapped(status) == GetDefS(status.phase_display, "")

PhaseDisplay(status) ==
    LET phase_display == GetDefS(status.phase_display, "")
    IN  CASE phase_display = "Action And Accountability" -> "Action & accountability"
          [] phase_display = "WorkPlan" -> "Workplan"
          [] OTHER -> phase_display

\* the status fields copied unchanged that no later stage reads (country,
\* phase, type_of_assessment, updated_at) are left out of the record
JoinedRecord(status, cmap, pmap, das, amap, omap) ==
    LET country_iso3   == InlineIso3(status)
        country_data   == CountryData(cmap, country_iso3)
        region_id      == RegionId(country_data.region, InlineRegion(status))
        considerations == ConsiderationsFor(amap, GetI(status.assessment))
        overview       == OverviewFor(omap, status.id)
        coordinates    == Coordinates(country_data.centroid).items
    IN  [ id                 |-> status.id,
          assessment_number  |-> GetI(status.assessment_number),
          date_of_assessment |-> GetS(status.date_of_assessment),
          country_name       |-> InlineOrLookup(InlineName(status), country_data.name),
          phase_display      |-> PhaseDisplay(status),
          country_iso3       |-> InlineOrLookup(InlineIso3(status), country_data.iso3),
          region_id          |-> region_id,
          region_name        |-> region_id_to_name_map(region_id),
          latitude           |-> Latitude(coordinates),
          longitude          |-> Longitude(coordinates),
          prioritized_components |-> PrioritizationFor(pmap, status.id),
          epi_considerations |-> considerations.epi_considerations,
          climate_environmental_considerations |->
              considerations.climate_environmental_considerations,
          urban_considerations |-> considerations.urban_considerations,
          migration_considerations |-> considerations.migration_considerations,
          assess_preparedness_of_country |-> overview.assess_preparedness_of_country,
          assess_urban_aspect_of_country |-> overview.assess_urban_aspect_of_country,
          assess_climate_environment_of_country |->
              overview.assess_climate_environment_of_country,
          assess_migration_aspect_of_country |->
              overview.assess_migration_aspect_of_country,
          components         |-> DashboardFor(das, GetI(status.assessment)) ]

\* len(coordinates) raises TypeError when 'coordinates' is null
JoinRaises(status, cmap) ==
    Coordinates(CountryData(cmap, InlineIso3(status)).centroid).kind = "null"

-----------------------------------------------------------------------------
(* Component grouping (lines 370-432) *)

Summary(assessment, rating_value, rating_title) ==
    [ assessment_id      |-> assessment.id,
      assessment_number  |-> assessment.assessment_number,
      country_name       |-> assessment.country_name,
      region_id          |-> assessment.region_id,
      region_name        |-> assessment.region_name,
      date_of_assessment |-> assessment.date_of_assessment,
      rating_value       |-> rating_value,
      rating_title       |-> rating_title ]

SyntheticBucket(summary) ==
    [ component_id   |-> NoneI,
      component_name |-> "",
      area_id        |-> NoneI,
      area_name      |-> "",
      assessments    |-> << summary >> ]

AppendTo(g, i, summary) ==
    [ g EXCEPT ![i].assessments = Append(@, summary) ]

DropEmpty(g, assessment) == g

GroupEmptyAlwaysNew(g, assessment) ==
    Append(g, SyntheticBucket(Summary(assessment, NoneI, "")))

\* lines 376-400: the record without components
GroupEmpty(g, assessment) ==
    LET empty_assessment == Summary(assessment, NoneI, "")
    IN  IF g = << >>
        THEN << SyntheticBucket(empty_assessment) >>
        ELSE AppendTo(g, 1, empty_assessment)

\* lines 403-432: one component of the record
GroupComponent(g, assessment, component) ==
    LET keys    == Keys(g, "component_id")
        summary == Summary(assessment, component.rating_value,
                           component.rating_title)
    IN  IF component.component_id \in Range(keys)
        THEN AppendTo(g, FirstAt(keys, component.component_id), summary)
        ELSE Append(g, [ component_id   |-> component.component_id,
                         component_name |-> component.component_name,
                         area_id        |-> component.area_id,
                         area_name      |-> component.area_name,
                         assessments    |-> << summary >> ])

RECURSIVE GroupComponents(_, _, _)
GroupComponents(g, assessment, components) ==
    IF components = << >> THEN g
    ELSE GroupComponents(GroupComponent(g, assessment, Head(components)),
                         assessment, Tail(components))

GroupRecord(g, assessment) ==
    IF assessment.components = << >>
    THEN GroupEmpty(g, assessment)
    ELSE GroupComponents(g, assessment, assessment.components)

-----------------------------------------------------------------------------
(* Country history (lines 434-452) *)

HistoryEntry(data) ==
    [ assessment_number |-> data.assessment_number,
      date              |-> data.date_of_assessment,
      components        |-> data.components,
      phase_display     |-> data.phase_display ]

\* the entries of one country, in the order of joined_data
RECURSIVE EntriesOf(_, _)
EntriesOf(joined, name) ==
    IF joined = << >> THEN << >>
    ELSE (IF Head(joined).country_name = name
          THEN << HistoryEntry(Head(joined)) >> ELSE << >>)
         \o EntriesOf(Tail(joined), name)

BuildHistory(joined) ==
    [ name \in { joined[i].country_name : i \in 1..Len(joined) } |->
        EntriesOf(joined, name) ]

\* lambda a: a['date'] if a['date'] else ''
SortKey(a) == IF TruthyS(a.date) THEN a.date ELSE ""

\* Python's order of the date strings of the model (str.__lt__ compares
\* code points from the left, and the empty string is below every other)
StrRank(d) ==
    CASE d = "" -> 0
      [] d = "2019-03-01" -> 1
      [] d = "2021-06-15" -> 2
      [] d = "2021-11-30" -> 3

StrLess(a, b) == StrRank(a) < StrRank(b)

StaysBeforeStrict(a, x) == StrLess(SortKey(a), SortKey(x))

\* list.sort is stable: x is placed after every a that is not above it
StaysBefore(a, x) == ~ StrLess(SortKey(x), SortKey(a))

RECURSIVE Insert(_, _)
Insert(sorted, x) ==
    IF sorted = << >> THEN << x >>
    ELSE IF StaysBefore(Head(sorted), x)
         THEN << Head(sorted) >> \o Insert(Tail(sorted), x)
         ELSE << x >> \o sorted

RECURSIVE SortFrom(_, _)
SortFrom(sorted, rest) ==
    IF rest = << >> THEN sorted
    ELSE SortFrom(Insert(sorted, Head(rest)), Tail(rest))

\* country_assessments[country].sort(key=...)
SortByDate(entries) == SortFrom(<< >>, entries)

-----------------------------------------------------------------------------
(* The steps of process_data *)

Required == { "status", "countries", "prioritization", "assessments" }
Derived ==
    { "map-data.json", "component-descriptions.json",
      "per-assessments-processed.json", "per-dashboard-data.json" }

\* per_overview_data: {'results': []} when per-overview.json is not found
OverviewData ==
    IF target_dir.overview.exists
    THEN target_dir.overview
    ELSE [ exists |-> FALSE, has_results |-> TRUE, results |-> << >> ]

MissingStatusResults == ~ target_dir.status.has_results

\* lines 98-102: the reads of ["results"] that raise KeyError
MissingResults ==
    \/ \E f \in Required : ~ target_dir[f].has_results
    \/ ~ OverviewData.has_results

ProgramVars ==
    << overview_map, country_map, prioritization_map, component_descriptions,
       processed_assessments, dashboard_assessments,
       assessment_considerations_map, joined_data, grouped, country_assessments >>

\* lines 65-68
UpdateTimestamp ==
    /\ pc = "start"
    /\ written' = written \cup { "last-update.json" }
    /\ pc' = "read"
    /\ UNCHANGED << FetchVars, run, first_out, target_dir, idx, ProgramVars, out >>

\* lines 70-102
ReadInputs ==
    /\ pc = "read"
    /\ ~ MissingResults
    /\ pc' = "lookups"
    /\ UNCHANGED << FetchVars, run, first_out, target_dir, idx, ProgramVars, written, out >>

\* lines 98-102 raising, re-raised by lines 478-480
ReadRaises ==
    /\ pc = "read"
    /\ MissingResults
    /\ pc' = "raised"
    /\ UNCHANGED << FetchVars, run, first_out, target_dir, idx, ProgramVars, written, out >>

\* lines 104-152
BuildLookups ==
    /\ pc = "lookups"
    /\ overview_map' = BuildOverviewMap(OverviewData.results)
    /\ country_map' = BuildCountryMap(target_dir.countries.results)
    /\ component_descriptions' =
           BuildComponentDescriptions(target_dir.prioritization.results)
    /\ prioritization_map' = BuildPrioritizationMap(target_dir.prioritization.results)
    /\ pc' = "normalize"
    /\ UNCHANGED << FetchVars, run, first_out, target_dir, idx, processed_assessments, dashboard_assessments,
                    assessment_considerations_map, joined_data, grouped,
                    country_assessments, written, out >>

\* lines 172-237
NormalizeAssessments ==
    /\ pc = "normalize"
    /\ processed_assessments' = ProcessAssessments(target_dir.assessments.results)
    /\ pc' = "flatten"
    /\ UNCHANGED << FetchVars, run, first_out, target_dir, idx, overview_map, country_map, prioritization_map,
                    component_descriptions, dashboard_assessments,
                    assessment_considerations_map, joined_data, grouped,
                    country_assessments, written, out >>

\* lines 240-262
FlattenDashboard ==
    /\ pc = "flatten"
    /\ dashboard_assessments' = DashboardAssessments(target_dir.assessments.results)
    /\ pc' = "considerations"
    /\ UNCHANGED << FetchVars, run, first_out, target_dir, idx, overview_map, country_map, prioritization_map,
                    component_descriptions, processed_assessments,
                    assessment_considerations_map, joined_data, grouped,
                    country_assessments, written, out >>

\* lines 264-289
BuildConsiderations ==
    /\ pc = "considerations"
    /\ assessment_considerations_map' = BuildConsiderationsMap(processed_assessments)
    /\ pc' = "join"
    /\ idx' = 1
    /\ UNCHANGED << FetchVars, run, first_out, target_dir, overview_map, country_map, prioritization_map,
                    component_descriptions, processed_assessments,
                    dashboard_assessments, joined_data, grouped,
                    country_assessments, written, out >>

JoinStatusFiltering ==
    /\ pc = "join"
    /\ idx <= Len(target_dir.status.results)
    /\ ~ JoinRaises(target_dir.status.results[idx], country_map)
    /\ joined_data' =
           IF GetI(target_dir.status.results[idx].assessment)
                  \in Range(Keys(dashboard_assessments, "assessment_id"))
           THEN Append(joined_data,
                       JoinedRecord(target_dir.status.results[idx], country_map,
                                    prioritization_map, dashboard_assessments,
                                    assessment_considerations_map, overview_map))
           ELSE joined_data
    /\ idx' = idx + 1
    /\ UNCHANGED << FetchVars, run, first_out, target_dir, pc, overview_map, country_map, prioritization_map,
                    component_descriptions, processed_assessments,
                    dashboard_assessments, assessment_considerations_map, grouped,
                    country_assessments, written, out >>

\* lines 293-367: one iteration of the loop over per_status_data['results']
JoinStatus ==
    /\ pc = "join"
    /\ idx <= Len(target_dir.status.results)
    /\ ~ JoinRaises(target_dir.status.results[idx], country_map)
    /\ joined_data' =
           Append(joined_data,
                  JoinedRecord(target_dir.status.results[idx], country_map,
                               prioritization_map, dashboard_assessments,
                               assessment_considerations_map, overview_map))
    /\ idx' = idx + 1
    /\ UNCHANGED << FetchVars, run, first_out, target_dir, pc, overview_map, country_map, prioritization_map,
                    component_descriptions, processed_assessments,
                    dashboard_assessments, assessment_considerations_map, grouped,
                    country_assessments, written, out >>

\* lines 351-352 raising TypeError, re-raised by lines 478-480
JoinStatusRaises ==
    /\ pc = "join"
    /\ idx <= Len(target_dir.status.results)
    /\ JoinRaises(target_dir.status.results[idx], country_map)
    /\ pc' = "raised"
    /\ UNCHANGED << FetchVars, run, first_out, target_dir, idx, ProgramVars, written, out >>

\* the loop of line 293 is exhausted
JoinEnd ==
    /\ pc = "join"
    /\ idx > Len(target_dir.status.results)
    /\ pc' = "group"
    /\ idx' = 1
    /\ UNCHANGED << FetchVars, run, first_out, target_dir, ProgramVars, written, out >>

\* lines 371-432: one iteration of the loop over joined_data
GroupStep ==
    /\ pc = "group"
    /\ idx <= Len(joined_data)
    /\ grouped' = GroupRecord(grouped, joined_data[idx])
    /\ idx' = idx + 1
    /\ UNCHANGED << FetchVars, run, first_out, target_dir, pc, overview_map, country_map, prioritization_map,
                    component_descriptions, processed_assessments,
                    dashboard_assessments, assessment_considerations_map,
                    joined_data, country_assessments, written, out >>

\* the loop of line 371 is exhausted
GroupEnd ==
    /\ pc = "group"
    /\ idx > Len(joined_data)
    /\ pc' = "history"
    /\ UNCHANGED << FetchVars, run, first_out, target_dir, idx, ProgramVars, written, out >>

\* lines 435-447
BuildCountryHistory ==
    /\ pc = "history"
    /\ country_assessments' = BuildHistory(joined_data)
    /\ pc' = "sort"
    /\ UNCHANGED << FetchVars, run, first_out, target_dir, idx, overview_map, country_map, prioritization_map,
                    component_descriptions, processed_assessments,
                    dashboard_assessments, assessment_considerations_map,
                    joined_data, grouped, written, out >>

\* lines 449-452
SortCountryHistory ==
    /\ pc = "sort"
    /\ country_assessments' =
           [ name \in DOMAIN country_assessments |->
               SortByDate(country_assessments[name]) ]
    /\ pc' = "write_map"
    /\ UNCHANGED << FetchVars, run, first_out, target_dir, idx, overview_map, country_map, prioritization_map,
                    component_descriptions, processed_assessments,
                    dashboard_assessments, assessment_considerations_map,
                    joined_data, grouped, written, out >>

\* lines 455-456
WriteMapData ==
    /\ pc = "write_map"
    /\ out' = [ out EXCEPT !.map_data = joined_data ]
    /\ written' = written \cup { "map-data.json" }
    /\ pc' = "write_descriptions"
    /\ UNCHANGED << FetchVars, run, first_out, target_dir, idx, ProgramVars >>

\* lines 459-460
WriteComponentDescriptions ==
    /\ pc = "write_descriptions"
    /\ out' = [ out EXCEPT !.component_descriptions = component_descriptions ]
    /\ written' = written \cup { "component-descriptions.json" }
    /\ pc' = "write_processed"
    /\ UNCHANGED << FetchVars, run, first_out, target_dir, idx, ProgramVars >>

\* lines 463-464
WriteProcessed ==
    /\ pc = "write_processed"
    /\ out' = [ out EXCEPT !.per_assessments_processed =
                               [ results |-> processed_assessments ] ]
    /\ written' = written \cup { "per-assessments-processed.json" }
    /\ pc' = "write_dashboard"
    /\ UNCHANGED << FetchVars, run, first_out, target_dir, idx, ProgramVars >>

\* lines 467-471
WriteDashboard ==
    /\ pc = "write_dashboard"
    /\ out' = [ out EXCEPT !.per_dashboard_data =
                               [ assessments |-> grouped,
                                 countryAssessments |-> country_assessments ] ]
    /\ written' = written \cup { "per-dashboard-data.json" }
    /\ pc' = "done"
    /\ UNCHANGED << FetchVars, run, first_out, target_dir, idx, ProgramVars >>

Next ==
    \/ UpdateTimestamp
    \/ ReadInputs
    \/ ReadRaises
    \/ BuildLookups
    \/ NormalizeAssessments
    \/ FlattenDashboard
    \/ BuildConsiderations
    \/ JoinStatus
    \/ JoinStatusRaises
    \/ JoinEnd
    \/ GroupStep
    \/ GroupEnd
    \/ BuildCountryHistory
    \/ SortCountryHistory
    \/ WriteMapData
    \/ WriteComponentDescriptions
    \/ WriteProcessed
    \/ WriteDashboard

MaxRuns == 2

Fresh ==
    /\ overview_map' = << >>
    /\ country_map' = << >>
    /\ prioritization_map' = << >>
    /\ component_descriptions' = << >>
    /\ processed_assessments' = << >>
    /\ dashboard_assessments' = << >>
    /\ assessment_considerations_map' = << >>
    /\ joined_data' = << >>
    /\ country_assessments' = << >>

RerunKeepingGrouped ==
    /\ pc \in { "done", "raised" }
    /\ run < MaxRuns
    /\ run' = run + 1
    /\ first_out' = IF run = 1 THEN [ files |-> out, outcome |-> pc ] ELSE first_out
    /\ pc' = "start"
    /\ idx' = 1
    /\ Fresh
    /\ UNCHANGED << FetchVars, target_dir, grouped, written, out >>

\* process_data is called again on the same directory: the locals of the
\* call are new, the files of the directory are those the last call left
Rerun ==
    /\ pc \in { "done", "raised" }
    /\ run < MaxRuns
    /\ run' = run + 1
    /\ first_out' = IF run = 1 THEN [ files |-> out, outcome |-> pc ] ELSE first_out
    /\ pc' = "start"
    /\ idx' = 1
    /\ Fresh
    /\ grouped' = << >>
    /\ UNCHANGED << FetchVars, target_dir, written, out >>

NextTwice == Next \/ Rerun

\* the files of the target directory before the run: none of the derived
\* files has been produced
NoOutput ==
    [ map_data |-> << >>,
      component_descriptions |-> << >>,
      per_assessments_processed |-> [ results |-> << >> ],
      per_dashboard_data |-> [ assessments |-> << >>, countryAssessments |-> << >> ] ]

InitWith(files) ==
    /\ target_dir = files
    /\ pc = "start"
    /\ idx = 1
    /\ overview_map = << >>
    /\ country_map = << >>
    /\ prioritization_map = << >>
    /\ component_descriptions = << >>
    /\ processed_assessments = << >>
    /\ dashboard_assessments = << >>
    /\ assessment_considerations_map = << >>
    /\ joined_data = << >>
    /\ grouped = << >>
    /\ country_assessments = << >>
    /\ written = { }
    /\ out = NoOutput
    /\ run = 1
    /\ first_out = [ files |-> NoOutput, outcome |-> "none" ]

-----------------------------------------------------------------------------
(* Inputs: the JSON documents of the target directory *)

MaxStatus == 3
MaxCoords == 2
MaxTextLen == 3

SeqsUpTo(S, n) == UNION { [ 1..k -> S ] : k \in 0..n }

File(results) == [ exists |-> TRUE, has_results |-> TRUE, results |-> results ]
NoResults == [ exists |-> TRUE, has_results |-> FALSE, results |-> << >> ]
NoFile == [ exists |-> FALSE, has_results |-> FALSE, results |-> << >> ]

Dir(status, countries, prioritization, assessments, overview) ==
    [ status |-> status, countries |-> countries,
      prioritization |-> prioritization, assessments |-> assessments,
      overview |-> overview ]

Cd(iso3, name, region) ==
    [ kind |-> "obj", iso3 |-> iso3, name |-> name, region |-> region ]
CdAbsent == [ kind |-> "absent", iso3 |-> AbsentS, name |-> AbsentS, region |-> AbsentI ]
CdNull == [ kind |-> "null", iso3 |-> AbsentS, name |-> AbsentS, region |-> AbsentI ]

Status(id, cd, assessment, date, phase_display) ==
    [ id |-> id, country_details |-> cd, assessment |-> assessment,
      assessment_number |-> id, date_of_assessment |-> date,
      phase_display |-> phase_display ]

Centroid(coordinates) == [ kind |-> "obj", coordinates |-> coordinates ]
CoordList(items) == [ kind |-> "list", items |-> items ]
CoordNull == [ kind |-> "null", items |-> << >> ]
CoordAbsent == [ kind |-> "absent", items |-> << >> ]
CentroidNull == [ kind |-> "null", coordinates |-> CoordAbsent ]

Country(iso3, name, region, centroid) ==
    [ iso3 |-> iso3, name |-> name, region |-> region, centroid |-> centroid ]

NoText == [ kind |-> "none", chars |-> << >> ]
NumText == [ kind |-> "num", chars |-> << >> ]
Str(chars) == [ kind |-> "str", chars |-> chars ]

Details(title, area) == [ kind |-> "obj", title |-> title, area |-> area ]
Rating(value, title) == [ kind |-> "obj", value |-> value, title |-> title ]
RatingId(id) == [ kind |-> "int", value |-> id, title |-> AbsentS ]

Response(id, component, rating, rating_details, details, urban, epi) ==
    [ id |-> id, component |-> component, rating |-> rating,
      rating_details |-> rating_details, component_details |-> details,
      urban_considerations |-> urban, epi_considerations |-> epi,
      climate_environmental_considerations |-> NoText,
      migration_considerations |-> NoText ]

Area(id, responses) == [ id |-> id, component_responses |-> responses ]
Assessment(id, areas) == [ id |-> id, area_responses |-> areas ]

Kenya == Country("KEN", "Kenya", 0, Centroid(CoordList(<< 37, 1 >>)))

\* a complete component response of component c with rating value v
Rated(id, c, v, urban) ==
    Response(id, c, RatingId(v), Rating(v, "High"),
             Details(IF c = 5 THEN "Coordination" ELSE "Logistics", 4),
             urban, NoText)

YesText == Str(<< "Y", "e", "s" >>)
NoWord == Str(<< "N", "o" >>)

\* the scenario of the specification: the rating object is under 'rating'
ScenarioStatus == Status(1, Cd("KEN", AbsentS, 0), 10, AbsentS, AbsentS)
ScenarioCountry == Country("KEN", "Kenya", 0, [ kind |-> "absent", coordinates |-> CoordAbsent ])
ScenarioAssessment ==
    Assessment(10, << Area(1, << Response(100, 5, Rating(3, "High"), NoRating,
                                          NoDetails, YesText, NoText) >>) >>)
ScenarioDir ==
    Dir(File(<< ScenarioStatus >>), File(<< ScenarioCountry >>), File(<< >>),
        File(<< ScenarioAssessment >>), NoFile)

\* documents without the 'results' key, and a centroid whose coordinates are null
MalformedDirs ==
    { Dir(NoResults, File(<< >>), File(<< >>), File(<< >>), NoFile),
      Dir(File(<< >>), NoResults, File(<< >>), File(<< >>), NoFile),
      Dir(File(<< >>), File(<< >>), NoResults, File(<< >>), NoFile),
      Dir(File(<< >>), File(<< >>), File(<< >>), NoResults, NoFile),
      Dir(File(<< ScenarioStatus >>), File(<< Kenya >>), File(<< >>), File(<< >>),
          NoResults),
      Dir(NoResults, NoResults, NoResults, NoResults, NoFile) }

(* Countries and inline country details *)

InlineDetails ==
    { CdAbsent, CdNull }
    \cup { Cd(i, n, r) : i \in { "KEN", "", AbsentS },
                         n \in { "Kenia", "", NoneS, AbsentS },
                         r \in { 0, 2, NoneI, AbsentI } }

CoordinateLists == { CoordList(c) : c \in SeqsUpTo({ 10, 20 }, MaxCoords) }

Centroids ==
    { [ kind |-> "absent", coordinates |-> CoordAbsent ], CentroidNull,
      Centroid(CoordAbsent), Centroid(CoordNull) }
    \cup { Centroid(c) : c \in CoordinateLists }

CountryLists ==
    { << >>, << Country("", "Nowhere", 3, Centroid(CoordList(<< 10, 20 >>))) >>,
      << Country(NoneS, "Unknown", 3, Centroid(CoordList(<< 10, 20 >>))) >> }
    \cup { << Country("KEN", n, r, Centroid(CoordList(<< 37, 1 >>))) >> :
              n \in { "Kenya", NoneS }, r \in { 0, 1, 2, 3, 4, 7, NoneI, AbsentI } }
    \cup { << Country("KEN", "Kenya", 0, c) >> : c \in Centroids }
    \cup { << Country("KEN", "Old", 2, CentroidNull), Kenya >> }

JoinDirs ==
    { Dir(File(<< Status(1, cd, NoneI, "2021-06-15", "WorkPlan") >>), File(cs),
          File(<< >>), File(<< >>), NoFile) :
        cd \in InlineDetails, cs \in CountryLists }

(* Assessments and the statuses that refer to them *)

AssessmentLists ==
    { << >>,
      << ScenarioAssessment >>,
      << Assessment(10, << >>) >>,
      << Assessment(10, << Area(1, << Rated(100, 5, 3, YesText) >>) >>) >>,
      << Assessment(10, << Area(1, << Rated(100, 5, 3, NoWord),
                                      Rated(101, 6, 2, NoText) >>),
                           Area(2, << Rated(102, 5, 1, NoText) >>) >>),
         Assessment(11, << Area(1, << Rated(103, 6, 4, YesText) >>) >>) >>,
      << Assessment(11, << Area(1, << Rated(100, AbsentI, 3, NoText) >>) >>),
         Assessment(10, << Area(1, << >>),
                           Area(2, << Rated(101, 6, 2, NoText) >>) >>) >>,
      << Assessment(10, << Area(1, << Rated(100, 5, 3, NoText) >>) >>),
         Assessment(10, << Area(1, << Rated(101, 6, 2, YesText) >>) >>) >>,
      << Assessment(10, << Area(1, << Rated(100, 5, 3, YesText) >>) >>),
         Assessment(10, << Area(1, << Rated(101, 6, 2, NoText) >>) >>) >> }

GroupStatuses ==
    { [ i \in 1..Len(fks) |-> Status(i, Cd("KEN", AbsentS, AbsentI), fks[i],
                                     "2021-06-15", AbsentS) ] :
        fks \in SeqsUpTo({ 10, 11, 12, NoneI }, MaxStatus) }

GroupDirs ==
    { Dir(File(ss), File(<< Kenya >>), File(<< >>), File(as), NoFile) :
        ss \in GroupStatuses, as \in AssessmentLists }

(* Dates and country names of the history *)

HistoryKeys ==
    { << "Kenya", d >> : d \in { "2019-03-01", "2021-06-15", "", NoneS, AbsentS } }
    \cup { << NoneS, "2021-06-15" >>, << NoneS, NoneS >> }

HistoryStatuses ==
    { [ i \in 1..Len(ks) |-> Status(i, Cd(AbsentS, ks[i][1], 0), 10, ks[i][2],
                                    "Action And Accountability") ] :
        ks \in SeqsUpTo(HistoryKeys, MaxStatus) }

HistoryDirs ==
    { Dir(File(ss), File(<< >>), File(<< >>),
          File(<< Assessment(10, << Area(1, << Rated(100, 5, 3, NoText) >>) >>) >>),
          NoFile) :
        ss \in HistoryStatuses }

(* Free texts of the consideration fields *)

Alphabet == { "y", "e", "s", "i", "S", "i_acute", "comb_acute", "n" }

YesDefinitely ==
    Str(<< "Y", "e", "s", ",", " ", "d", "e", "f", "i", "n", "i", "t", "e", "l", "y" >>)
SiPorSupuesto ==
    Str(<< "S", "i_acute", ",", " ", "p", "o", "r", " ",
           "s", "u", "p", "u", "e", "s", "t", "o" >>)

SampleTexts ==
    { Str(<< "b", "u", "s", "i", "n", "e", "s", "s" >>),
      YesDefinitely,
      SiPorSupuesto,
      Str(<< "S", "I_acute" >>),
      Str(<< "Y", "E", "S" >>),
      NoWord, NoText, NumText }

Texts == SampleTexts \cup { Str(c) : c \in SeqsUpTo(Alphabet, MaxTextLen) }

TextDirs ==
    { Dir(File(<< Status(1, Cd("KEN", AbsentS, AbsentI), 10, AbsentS, AbsentS) >>),
          File(<< Kenya >>), File(<< >>),
          File(<< Assessment(10, << Area(1, << Rated(100, 5, 3, t) >>) >>) >>),
          NoFile) :
        t \in Texts }

(* The optional overview and the prioritization *)

Overview(id, v) ==
    [ id |-> id,
      assess_preparedness_of_country |-> v,
      assess_urban_aspect_of_country |-> v,
      assess_climate_environment_of_country |-> AbsentS,
      assess_migration_aspect_of_country |-> NoneS ]

Prioritized(overview, component, title) ==
    [ overview |-> overview,
      prioritized_action_responses |->
          << [ component |-> component,
               component_details |-> [ id |-> component, title |-> title ] ] >> ]

OverviewDirs ==
    { Dir(File(<< Status(1, CdAbsent, NoneI, AbsentS, AbsentS),
                  Status(2, Cd("KEN", AbsentS, AbsentI), 10, AbsentS, "WorkPlan") >>),
          File(<< Kenya >>), File(ps), File(<< ScenarioAssessment >>), ov) :
        ps \in { << >>, << Prioritized(1, 5, "Coordination") >>,
                 << Prioritized(2, 5, "Coordination"), Prioritized(2, 6, AbsentS) >> },
        ov \in { NoFile, File(<< >>), File(<< Overview(1, "true") >>),
                 File(<< Overview(2, "false"), Overview(2, "true") >>) } }

(* Component and rating details of the dashboard components *)

DetailsNull == [ kind |-> "null", title |-> AbsentS, area |-> AbsentI ]
RatingNull == [ kind |-> "null", value |-> AbsentI, title |-> AbsentS ]

ComponentDetails ==
    { NoDetails, DetailsNull }
    \cup { Details(t, a) : t \in { "Coordination", "", NoneS, AbsentS },
                           a \in { 4, 9, NoneI, AbsentI } }

RatingDetails ==
    { NoRating, RatingNull }
    \cup { Rating(v, t) : v \in { 3, 0, NoneI, AbsentI },
                          t \in { "High", NoneS, AbsentS } }

DashboardDirs ==
    { Dir(File(<< Status(1, Cd("KEN", AbsentS, AbsentI), 10, AbsentS, AbsentS) >>),
          File(<< Kenya >>), File(<< >>),
          File(<< Assessment(10, << Area(1, << Response(100, 5, RatingId(3), r, d,
                                                        NoText, NoText) >>) >>) >>),
          NoFile) :
        d \in ComponentDetails, r \in RatingDetails }

(* The four consideration texts, in the second area of the assessment *)

Considered(id, urban, epi, climate, migration) ==
    [ Response(id, 5, RatingId(3), Rating(3, "High"), Details("Coordination", 4),
               urban, epi)
      EXCEPT !.climate_environmental_considerations = climate,
             !.migration_considerations = migration ]

ConsiderationDirs ==
    { Dir(File(<< Status(1, Cd("KEN", AbsentS, AbsentI), fk, AbsentS, AbsentS) >>),
          File(<< Kenya >>), File(<< >>),
          File(<< Assessment(10,
                     << Area(1, << Considered(100, NoText, NoText, NoText, NoText) >>),
                        Area(2, << Considered(101, u, e, c, m) >>) >>) >>),
          NoFile) :
        fk \in { 10, 12, NoneI },
        u \in { NoText, YesText, NoWord }, e \in { NoText, YesText, NoWord },
        c \in { NoText, YesText, NoWord }, m \in { NoText, YesText, NoWord } }

(* Phase labels *)

PhaseDirs ==
    { Dir(File(<< Status(1, CdAbsent, NoneI, AbsentS, ph) >>), File(<< >>),
          File(<< >>), File(<< >>), NoFile) :
        ph \in { "Action And Accountability", "WorkPlan", "Workplan", "Assessment",
                 "Action & accountability", "", NoneS, AbsentS } }

Dirs ==
    { ScenarioDir } \cup MalformedDirs \cup JoinDirs \cup GroupDirs
    \cup HistoryDirs \cup TextDirs \cup OverviewDirs \cup DashboardDirs
    \cup ConsiderationDirs \cup PhaseDirs

\* fetch_paginated_data is not running
FetchIdle ==
    /\ server = << >>
    /\ next_url = 0
    /\ all_results = << >>
    /\ fetch_pc = "idle"

Init == FetchIdle /\ \E files \in Dirs : InitWith(files)

Spec == Init /\ [][Next]_vars

(* fetch_paginated_data (utils/fetch_paginated_data.py) *)

MaxPages == 3

\* what a request to a URL of the server answers
HttpError == [ kind |-> "error", results |-> << >>, has_results |-> FALSE, next |-> 0 ]
EmptyData == [ kind |-> "empty", results |-> << >>, has_results |-> FALSE, next |-> 0 ]
Page(results, next) ==
    [ kind |-> "page", results |-> results, has_results |-> TRUE, next |-> next ]
PageWithoutResults(next) ==
    [ kind |-> "page", results |-> << >>, has_results |-> FALSE, next |-> next ]

\* the URLs are 1 (base_url) to n; 0 is a missing, null or empty 'next'
PagesAt(url, n) ==
    { HttpError, EmptyData }
    \cup { Page(r, nx) : r \in { << >>, << 10 * url >>, << 10 * url, 10 * url + 1 >> },
                         nx \in IF url < n THEN { 0, url + 1 } ELSE { 0 } }
    \cup { PageWithoutResults(nx) : nx \in IF url < n THEN { 0, url + 1 } ELSE { 0 } }

\* the servers with pages url to n
RECURSIVE ServersFrom(_, _)
ServersFrom(url, n) ==
    IF url > n THEN { << >> }
    ELSE { << p >> \o rest : p \in PagesAt(url, n), rest \in ServersFrom(url + 1, n) }

Servers == UNION { ServersFrom(1, n) : n \in 1..MaxPages }

\* lines 26-55: a request that yields a page with results
FetchPage ==
    /\ fetch_pc = "loop"
    /\ next_url # 0
    /\ server[next_url].kind = "page"
    /\ server[next_url].has_results
    /\ all_results' = all_results \o server[next_url].results
    /\ next_url' = server[next_url].next
    /\ UNCHANGED << server, fetch_pc, run, first_out, target_dir, pc, idx, ProgramVars,
                    written, out >>

\* lines 37-41 and 63: the response body is empty
FetchEmptyData ==
    /\ fetch_pc = "loop"
    /\ next_url # 0
    /\ server[next_url].kind = "empty"
    /\ fetch_pc' = "returned"
    /\ UNCHANGED << server, next_url, all_results, run, first_out, target_dir, pc, idx,
                    ProgramVars, written, out >>

\* lines 43-49 and 63: the response has no 'results'
FetchNoResults ==
    /\ fetch_pc = "loop"
    /\ next_url # 0
    /\ server[next_url].kind = "page"
    /\ ~ server[next_url].has_results
    /\ next_url' = server[next_url].next
    /\ fetch_pc' = "returned"
    /\ UNCHANGED << server, all_results, run, first_out, target_dir, pc, idx,
                    ProgramVars, written, out >>

\* lines 26-33 and 57-61: the request fails
FetchFails ==
    /\ fetch_pc = "loop"
    /\ next_url # 0
    /\ server[next_url].kind = "error"
    /\ fetch_pc' = "raised"
    /\ UNCHANGED << server, next_url, all_results, run, first_out, target_dir, pc, idx,
                    ProgramVars, written, out >>

\* lines 23 and 63: no next URL
FetchReturn ==
    /\ fetch_pc = "loop"
    /\ next_url = 0
    /\ fetch_pc' = "returned"
    /\ UNCHANGED << server, next_url, all_results, run, first_out, target_dir, pc, idx,
                    ProgramVars, written, out >>

NextFetch ==
    \/ FetchPage
    \/ FetchEmptyData
    \/ FetchNoResults
    \/ FetchFails
    \/ FetchReturn

\* lines 18-19
InitFetch ==
    /\ server \in Servers
    /\ next_url = 1
    /\ all_results = << >>
    /\ fetch_pc = "loop"
    /\ InitWith(ScenarioDir)

SpecFetch == InitFetch /\ [][NextFetch]_vars

(* Two calls of process_data on one directory *)

NullCoordinateDir ==
    Dir(File(<< Status(1, Cd("KEN", AbsentS, AbsentI), 10, AbsentS, AbsentS) >>),
        File(<< Country("KEN", "Kenya", 1, Centroid(CoordNull)) >>),
        File(<< >>), File(<< >>), NoFile)

TwiceDirs ==
    { ScenarioDir, NullCoordinateDir } \cup MalformedDirs \cup GroupDirs
    \cup OverviewDirs

InitTwice == FetchIdle /\ \E files \in TwiceDirs : InitWith(files)

SpecTwice == InitTwice /\ [][NextTwice]_vars

-----------------------------------------------------------------------------
(* Properties *)

StatusResults == target_dir.status.results

AfterJoin ==
    pc \in { "group", "history", "sort", "write_map", "write_descriptions",
             "write_processed", "write_dashboard", "done" }

AfterSort ==
    pc \in { "write_map", "write_descriptions", "write_processed",
             "write_dashboard", "done" }

Ids(seq) == [ i \in 1..Len(seq) |-> seq[i].id ]

\* C1: process_data emits exactly one Joined Record per Status Record, in the
\* order of the input: while the join runs the ids of joined_data are the ids
\* of the statuses already visited, after it they are the ids of all statuses,
\* and map-data.json holds that sequence, whether or not a status matches a
\* country, an assessment, a prioritization or an overview record.
C1_NoFiltering ==
    /\ pc = "join" => Ids(joined_data) = SubSeq(Ids(StatusResults), 1, idx - 1)
    /\ AfterJoin => Ids(joined_data) = Ids(StatusResults)
    /\ pc = "done" => Ids(out.map_data) = Ids(StatusResults)

C1_Witness ==
    /\ pc = "done"
    /\ Len(out.map_data) >= 2
    /\ \E i \in 1..Len(out.map_data) :
          /\ StatusResults[i].assessment = 12
          /\ out.map_data[i].components = << >>
    /\ \E i \in 1..Len(out.map_data) : out.map_data[i].components # << >>

\* C2 (as stated in the specification): in the scenario the single Joined
\* Record has country_name 'Kenya', urban_considerations true and exactly one
\* dashboard component, whose rating_value is 3.
C2_ScenarioRatingThree ==
    (target_dir = ScenarioDir /\ pc = "done") =>
        /\ Len(out.map_data) = 1
        /\ out.map_data[1].country_name = "Kenya"
        /\ out.map_data[1].urban_considerations = TRUE
        /\ Len(out.map_data[1].components) = 1
        /\ out.map_data[1].components[1].rating_value = 3

\* C2 (amended): in the scenario the single Joined Record has country_name
\* 'Kenya', urban_considerations true and exactly one dashboard component,
\* whose rating_value is 0 and rating_title '': the scenario gives the rating
\* object under 'rating', and the flattener reads 'rating_details'.
C2_ScenarioRatingDefault ==
    (target_dir = ScenarioDir /\ pc = "done") =>
        /\ Len(out.map_data) = 1
        /\ out.map_data[1].country_name = "Kenya"
        /\ out.map_data[1].urban_considerations = TRUE
        /\ Len(out.map_data[1].components) = 1
        /\ out.map_data[1].components[1].component_id = 5
        /\ out.map_data[1].components[1].rating_value = 0
        /\ out.map_data[1].components[1].rating_title = ""

C2_Witness ==
    /\ target_dir = ScenarioDir
    /\ pc = "done"
    /\ out.map_data[1].id = 1

\* the Country Record a status resolves to, read from the input document
ResolvedCountries(status) ==
    { c \in Range(target_dir.countries.results) :
        /\ status.country_details.kind = "obj"
        /\ c.iso3 = status.country_details.iso3 }

\* C3 (as stated in the specification): for every Status Record whose iso3
\* resolves to a Country Record carrying a region code r in 0..4, the Joined
\* Record's region_id is r and its region_name is the table's name for r.
C3_RegionFromCountry ==
    \A i \in 1..Len(joined_data) :
        \A c \in ResolvedCountries(StatusResults[i]) :
            (Cardinality(ResolvedCountries(StatusResults[i])) = 1
                /\ c.region \in 0..4) =>
                /\ joined_data[i].region_id = c.region
                /\ joined_data[i].region_name = region_id_to_name_map(c.region)

\* C4: when a required collection lacks the 'results' key, process_data stops
\* by raising before it reaches the lookups, and none of the four derived
\* files has been written or changed by the run.
C4_NoPartialOutput ==
    (\E f \in Required : ~ target_dir[f].has_results) =>
        /\ pc \in { "start", "read", "raised" }
        /\ written \cap Derived = { }
        /\ out = NoOutput

C4_Witness ==
    /\ pc = "raised"
    /\ ~ target_dir.assessments.has_results
    /\ target_dir.status.has_results
    /\ written = { "last-update.json" }

\* C5 (as stated in the specification): for every Joined Record, latitude is
\* coordinates[1] and longitude is coordinates[0] of the centroid of the
\* resolved country, and both are null when the centroid is absent or
\* malformed, as with a coordinates list of fewer than two elements.
C5_BothNullWhenMalformed ==
    \A i \in 1..Len(joined_data) :
        LET iso3     == InlineIso3(StatusResults[i])
            centroid == CountryData(country_map, iso3).centroid
            items    == centroid.coordinates.items
            wellformed == /\ centroid.kind = "obj"
                          /\ centroid.coordinates.kind = "list"
                          /\ Len(items) >= 2
        IN  IF wellformed
            THEN /\ joined_data[i].latitude = items[2]
                 /\ joined_data[i].longitude = items[1]
            ELSE /\ joined_data[i].latitude = NoneI
                 /\ joined_data[i].longitude = NoneI

\* the number of assessment summaries in all buckets
RECURSIVE SummaryCount(_)
SummaryCount(g) ==
    IF g = << >> THEN 0 ELSE Len(Head(g).assessments) + SummaryCount(Tail(g))

\* the sum of max(1, len(components)) over the first n joined records
RECURSIVE Contributions(_, _)
Contributions(joined, n) ==
    IF n = 0 THEN 0
    ELSE (IF Len(joined[n].components) > 1 THEN Len(joined[n].components) ELSE 1)
         + Contributions(joined, n - 1)

\* C6: the sum of the lengths of the assessments lists over all buckets equals
\* the sum over the Joined Records of max(1, number of dashboard components):
\* over the records already grouped while the grouping runs, over all of them
\* afterwards and in per-dashboard-data.json.
C6_GroupingLaw ==
    /\ pc = "group" => SummaryCount(grouped) = Contributions(joined_data, idx - 1)
    /\ (AfterJoin /\ pc # "group") =>
           SummaryCount(grouped) = Contributions(joined_data, Len(joined_data))
    /\ pc = "done" =>
           SummaryCount(out.per_dashboard_data.assessments)
               = Contributions(out.map_data, Len(out.map_data))

C6_Witness ==
    /\ pc = "done"
    /\ Len(out.per_dashboard_data.assessments) >= 2
    /\ \E i \in 1..Len(out.map_data) : out.map_data[i].components = << >>
    /\ \E i \in 1..Len(out.map_data) : Len(out.map_data[i].components) >= 2

\* C7: in the country history every country's sequence holds exactly the
\* summaries of its Joined Records, is non-decreasing by date with a missing
\* date taken as the empty string, and summaries with equal dates keep the
\* order in which their Joined Records were encountered (a status carries its
\* position in the input as assessment_number).
C7_SortLaw ==
    AfterSort =>
        \A name \in DOMAIN country_assessments :
            LET sorted == country_assessments[name]
            IN  /\ Len(sorted) = Len(EntriesOf(joined_data, name))
                /\ Range(sorted) = Range(EntriesOf(joined_data, name))
                /\ \A i, j \in 1..Len(sorted) :
                      i < j =>
                        /\ StrRank(IF sorted[i].date \in { NoneS, "" }
                                   THEN "" ELSE sorted[i].date)
                             <= StrRank(IF sorted[j].date \in { NoneS, "" }
                                        THEN "" ELSE sorted[j].date)
                        /\ (sorted[i].date \in { NoneS, "" }
                              /\ sorted[j].date \in { NoneS, "" }) =>
                               sorted[i].assessment_number
                                   < sorted[j].assessment_number
                        /\ sorted[i].date = sorted[j].date =>
                               sorted[i].assessment_number
                                   < sorted[j].assessment_number

C7_Witness ==
    /\ pc = "done"
    /\ \E name \in DOMAIN country_assessments :
          LET sorted == out.per_dashboard_data.countryAssessments[name]
          IN  /\ Len(sorted) = 3
              /\ sorted # EntriesOf(joined_data, name)
              /\ sorted[1].date = NoneS
              /\ sorted[2].date = ""
              /\ sorted[3].date = "2019-03-01"

Business == << "b", "u", "s", "i", "n", "e", "s", "s" >>

\* every normalized component of the output
Normalized ==
    UNION { Range(AllComponents(processed_assessments[i].area_responses)) :
              i \in 1..Len(processed_assessments) }

\* C8 (as stated in the specification): a text whose only occurrence of 'si'
\* is inside a longer word is not affirmative: 'business' is classified false.
C8_BusinessNotAffirmative ==
    \A c \in Normalized :
        (c.urban_considerations.kind = "str"
            /\ c.urban_considerations.chars = Business) =>
            c.urban_considerations_simplified = FALSE

\* C8 (amended): matching is by substring, so a text whose only occurrence of
\* 'si' is inside a longer word is affirmative: 'business' is classified true.
C8_BusinessAffirmative ==
    \A c \in Normalized :
        (c.urban_considerations.kind = "str"
            /\ c.urban_considerations.chars = Business) =>
            c.urban_considerations_simplified = TRUE

C8_Witness ==
    /\ pc = "done"
    /\ \E c \in Normalized :
          /\ c.urban_considerations.kind = "str"
          /\ c.urban_considerations.chars = Business

\* the lower-case letter without its mark that a character stands for, and
\* nothing for a combining mark
Folded(c) ==
    CASE c = "comb_acute" -> << >>
      [] c \in { "i_acute", "I_acute", "I" } -> << "i" >>
      [] c = "Y" -> << "y" >>
      [] c = "E" -> << "e" >>
      [] c = "S" -> << "s" >>
      [] c = "N" -> << "n" >>
      [] OTHER -> << c >>

RECURSIVE FoldedText(_)
FoldedText(s) == IF s = << >> THEN << >> ELSE Folded(Head(s)) \o FoldedText(Tail(s))

HasWord(s, w) ==
    \E i \in 1..Len(s) :
        /\ i + Len(w) - 1 <= Len(s)
        /\ \A k \in 1..Len(w) : s[i + k - 1] = w[k]

Affirmative(text) ==
    /\ text.kind = "str"
    /\ text.chars # << >>
    /\ \/ HasWord(FoldedText(text.chars), << "y", "e", "s" >>)
       \/ HasWord(FoldedText(text.chars), << "s", "i" >>)

\* C9: contains_affirmative_word is false for an absent, non-string or empty
\* input, and for any other string it is true exactly when the lower-cased
\* text without its combining marks contains 'yes' or 'si'; so it is true of
\* 'Yes, definitely' and of 'Si (acute), por supuesto' and false of 'No'.
C9_SubstringSemantics ==
    \A c \in Normalized :
        /\ c.urban_considerations_simplified = Affirmative(c.urban_considerations)
        /\ c.urban_considerations.kind # "str" =>
               c.urban_considerations_simplified = FALSE
        /\ c.urban_considerations = Str(<< >>) =>
               c.urban_considerations_simplified = FALSE
        /\ c.urban_considerations = NoWord =>
               c.urban_considerations_simplified = FALSE
        /\ c.urban_considerations \in { YesDefinitely, SiPorSupuesto } =>
               c.urban_considerations_simplified = TRUE

C9_Witness ==
    /\ pc = "done"
    /\ \E c \in Normalized :
          /\ c.urban_considerations = SiPorSupuesto
          /\ c.urban_considerations_simplified = TRUE

\* the inline value of a field of country_details: AbsentS when the object or
\* the key is not there
InlineField(status, field) ==
    IF status.country_details.kind = "obj"
    THEN status.country_details[field] ELSE AbsentS

\* the value the Country lookup holds for the status, None without a match
LookupField(status, field) ==
    LET iso3 == GetS(InlineField(status, "iso3"))
    IN  IF iso3 \in DOMAIN country_map THEN country_map[iso3][field] ELSE NoneS

\* C10 (as stated in the specification): country_name and country_iso3 are the
\* inline country_details value whenever it is present and non-null, and the
\* Country lookup's value only when the inline field is omitted or null.
C10_InlineWinsWhenNonNull ==
    \A i \in 1..Len(joined_data) :
        \A field \in { "name", "iso3" } :
            LET inline == InlineField(StatusResults[i], field)
                joined == IF field = "name" THEN joined_data[i].country_name
                          ELSE joined_data[i].country_iso3
            IN  IF inline \notin { AbsentS, NoneS }
                THEN joined = inline
                ELSE joined = LookupField(StatusResults[i], field)

\* C10 (amended): country_name and country_iso3 are the inline country_details
\* value whenever it is present, non-null and not the empty string, and
\* otherwise the Country lookup's value, which is null when no country matches.
C10_InlineWinsWhenTruthy ==
    \A i \in 1..Len(joined_data) :
        \A field \in { "name", "iso3" } :
            LET inline == InlineField(StatusResults[i], field)
                joined == IF field = "name" THEN joined_data[i].country_name
                          ELSE joined_data[i].country_iso3
            IN  IF inline \notin { AbsentS, NoneS, "" }
                THEN joined = inline
                ELSE joined = LookupField(StatusResults[i], field)

C10_Witness ==
    /\ pc = "done"
    /\ Len(out.map_data) = 1
    /\ InlineField(StatusResults[1], "name") = "Kenia"
    /\ LookupField(StatusResults[1], "name") = "Kenya"
    /\ out.map_data[1].country_name = "Kenia"

\* every dashboard component of the flattened assessments
DashboardComponents ==
    UNION { Range(dashboard_assessments[i].components) :
              i \in 1..Len(dashboard_assessments) }

\* C11 (as stated in the specification): in every dashboard component summary
\* component_name and rating_title are never null and rating_value is never
\* null, also when component_details or rating_details carry the field with a
\* null value.
C11_NeverNull ==
    \A c \in DashboardComponents :
        /\ c.component_name # NoneS
        /\ c.rating_title # NoneS
        /\ c.rating_value # NoneI

\* the positions of the records of seq whose id is the key
Matching(seq, key) == { k \in 1..Len(seq) : seq[k].id = key }

Last(S) == CHOOSE k \in S : \A j \in S : j <= k

\* one of the texts of the field, in any area of the assessment, is affirmative
AnyAffirmative(assessment, field) ==
    \E cr \in Range(AllComponents(assessment.area_responses)) :
        contains_affirmative_word(cr[field])

\* C12: for every Joined Record each of the four consideration flags is true
\* exactly when the status's assessment key matches an Assessment Record and
\* one of the Component Responses in any of that assessment's areas has the
\* corresponding text classified affirmative (of several records with the
\* same id the last one is that assessment); without a match all are false.
C12_ConsiderationFlags ==
    \A i \in 1..Len(joined_data) :
        LET records == target_dir.assessments.results
            M == Matching(records, GetI(StatusResults[i].assessment))
            j == joined_data[i]
        IN  IF M = { }
            THEN /\ j.epi_considerations = FALSE
                 /\ j.climate_environmental_considerations = FALSE
                 /\ j.urban_considerations = FALSE
                 /\ j.migration_considerations = FALSE
            ELSE /\ j.epi_considerations
                      = AnyAffirmative(records[Last(M)], "epi_considerations")
                 /\ j.climate_environmental_considerations
                      = AnyAffirmative(records[Last(M)],
                                       "climate_environmental_considerations")
                 /\ j.urban_considerations
                      = AnyAffirmative(records[Last(M)], "urban_considerations")
                 /\ j.migration_considerations
                      = AnyAffirmative(records[Last(M)], "migration_considerations")

C12_Witness ==
    /\ pc = "done"
    /\ Len(out.map_data) = 1
    /\ Len(target_dir.assessments.results) = 1
    /\ Len(target_dir.assessments.results[1].area_responses) = 2
    /\ target_dir.assessments.results[1].area_responses[2]
           .component_responses[1].migration_considerations = YesText
    /\ out.map_data[1].migration_considerations = TRUE
    /\ out.map_data[1].urban_considerations = FALSE
    /\ out.map_data[1].epi_considerations = FALSE

\* ids of the assessments, of their areas and of their component responses
Structure(records) ==
    [ i \in 1..Len(records) |->
        [ id |-> records[i].id,
          areas |->
            [ a \in 1..Len(records[i].area_responses) |->
                [ id |-> records[i].area_responses[a].id,
                  components |->
                      Ids(records[i].area_responses[a].component_responses) ] ] ] ]

AfterNormalize ==
    pc \in { "flatten", "considerations", "join" } \/ AfterJoin

\* C13: the normalized assessments are one-to-one and in the order of the
\* input Assessment collection, and each keeps the number and order of its
\* areas and, within each area, of its component responses (by id), in memory
\* and in per-assessments-processed.json.
C13_StructurePreserved ==
    /\ AfterNormalize =>
           Structure(processed_assessments)
               = Structure(target_dir.assessments.results)
    /\ pc = "done" =>
           Structure(out.per_assessments_processed.results)
               = Structure(target_dir.assessments.results)

C13_Witness ==
    /\ pc = "done"
    /\ Len(out.per_assessments_processed.results) = 2
    /\ \E i \in 1..2 :
          LET areas == out.per_assessments_processed.results[i].area_responses
          IN  /\ Len(areas) = 2
              /\ areas[1].component_responses = << >>
              /\ Len(areas[2].component_responses) = 1

OverviewFields ==
    { "assess_preparedness_of_country", "assess_urban_aspect_of_country",
      "assess_climate_environment_of_country",
      "assess_migration_aspect_of_country" }

\* the Overview Records supplied: none when per-overview.json is not there
SuppliedOverviews ==
    IF target_dir.overview.exists THEN target_dir.overview.results ELSE << >>

NullCoordinates ==
    \E c \in Range(target_dir.countries.results) :
        c.centroid.kind = "obj" /\ c.centroid.coordinates.kind = "null"

\* C14: when the overview dataset is not supplied, or no Overview Record has
\* the id of the status, the four assess_*_of_country fields of the Joined
\* Record are null and process_data does not raise for that reason; when an
\* Overview Record with that id exists (the last one of several) its four
\* values are copied, null for a field it does not carry.
C14_OverviewOptional ==
    /\ \A i \in 1..Len(joined_data) :
          LET M == Matching(SuppliedOverviews, StatusResults[i].id)
          IN  \A f \in OverviewFields :
                 joined_data[i][f]
                     = IF M = { } THEN NoneS
                       ELSE GetS(SuppliedOverviews[Last(M)][f])
    /\ pc = "raised" =>
          \/ \E f \in Required : ~ target_dir[f].has_results
          \/ target_dir.overview.exists /\ ~ target_dir.overview.has_results
          \/ NullCoordinates

C14_Witness ==
    /\ pc = "done"
    /\ target_dir.overview.exists
    /\ Len(out.map_data) = 2
    /\ out.map_data[1].assess_preparedness_of_country = "true"
    /\ out.map_data[1].assess_urban_aspect_of_country = "true"
    /\ out.map_data[1].assess_migration_aspect_of_country = NoneS
    /\ \A f \in OverviewFields : out.map_data[2][f] = NoneS

\* C15: the Joined Record's phase_display is 'Action & accountability' for the
\* input 'Action And Accountability', 'Workplan' for 'WorkPlan', and otherwise
\* the input value ('' when the status has no phase_display key).
C15_PhaseRemap ==
    \A i \in 1..Len(joined_data) :
        LET given == StatusResults[i].phase_display
        IN  joined_data[i].phase_display =
              CASE given = "Action And Accountability" -> "Action & accountability"
                [] given = "WorkPlan" -> "Workplan"
                [] given = AbsentS -> ""
                [] OTHER -> given

C15_Witness ==
    /\ pc = "done"
    /\ Len(out.map_data) = 1
    /\ StatusResults[1].country_details = CdAbsent
    /\ StatusResults[1].phase_display = "WorkPlan"
    /\ out.map_data[1].phase_display = "Workplan"

EmptySummary(assessment) ==
    [ assessment_id      |-> assessment.id,
      assessment_number  |-> assessment.assessment_number,
      country_name       |-> assessment.country_name,
      region_id          |-> assessment.region_id,
      region_name        |-> assessment.region_name,
      date_of_assessment |-> assessment.date_of_assessment,
      rating_value       |-> NoneI,
      rating_title       |-> "" ]

Metadata(bucket) ==
    << bucket.component_id, bucket.component_name, bucket.area_id,
       bucket.area_name >>

\* the grouping loop is at a record without components
AtComponentLess ==
    /\ pc = "group"
    /\ idx <= Len(joined_data)
    /\ joined_data[idx].components = << >>

\* C17: in every step of the grouping loop taken at a Joined Record without
\* components, exactly one summary with rating_value null and rating_title ''
\* is appended to the first bucket when a bucket exists, and otherwise one
\* synthetic bucket with null ids and empty names is created holding that
\* summary; buckets are never removed, reordered or relabelled while the loop
\* runs, so a synthetic bucket is created at most once, stays first, and
\* receives every later component-less record.
C17_ComponentLessRecords ==
    [][ /\ AtComponentLess =>
              IF grouped = << >>
              THEN grouped' =
                     << [ component_id   |-> NoneI,
                          component_name |-> "",
                          area_id        |-> NoneI,
                          area_name      |-> "",
                          assessments    |-> << EmptySummary(joined_data[idx]) >> ] >>
              ELSE grouped' =
                     [ grouped EXCEPT ![1].assessments =
                           Append(@, EmptySummary(joined_data[idx])) ]
        /\ (pc = "group" /\ pc' = "group" /\ grouped # << >>) =>
              /\ Len(grouped') >= Len(grouped)
              /\ \A b \in 1..Len(grouped) :
                     Metadata(grouped'[b]) = Metadata(grouped[b])
      ]_vars

\* a synthetic bucket that has received two component-less records and is
\* followed by a component bucket
C17_Witness ==
    /\ pc = "group"
    /\ Len(grouped) >= 2
    /\ Metadata(grouped[1]) = << NoneI, "", NoneI, "" >>
    /\ Len(grouped[1].assessments) = 2
    /\ grouped[1].assessments[1].assessment_id = 1
    /\ grouped[1].assessments[2].assessment_id = 3
    /\ joined_data[1].components = << >>
    /\ joined_data[3].components = << >>

\* the components of the Joined Records in encounter order, each with the
\* record that lists it
RECURSIVE Occurrences(_)
Occurrences(joined) ==
    IF joined = << >> THEN << >>
    ELSE [ k \in 1..Len(Head(joined).components) |->
             [ assessment |-> Head(joined), component |-> Head(joined).components[k] ] ]
         \o Occurrences(Tail(joined))

\* the component ids of the occurrences, each at its first position only
RECURSIVE FirstSeen(_, _)
FirstSeen(occ, seen) ==
    IF occ = << >> THEN << >>
    ELSE IF Head(occ).component.component_id \in seen
         THEN FirstSeen(Tail(occ), seen)
         ELSE << Head(occ) >>
              \o FirstSeen(Tail(occ), seen \cup { Head(occ).component.component_id })

\* the summaries of the occurrences of component id c, in encounter order
RECURSIVE SummariesOf(_, _)
SummariesOf(occ, c) ==
    IF occ = << >> THEN << >>
    ELSE (IF Head(occ).component.component_id = c
          THEN << [ EmptySummary(Head(occ).assessment)
                    EXCEPT !.rating_value = Head(occ).component.rating_value,
                           !.rating_title = Head(occ).component.rating_title ] >>
          ELSE << >>)
         \o SummariesOf(Tail(occ), c)

\* the summaries of a bucket that come from component lists
RECURSIVE FromComponents(_, _)
FromComponents(summaries, componentLess) ==
    IF summaries = << >> THEN << >>
    ELSE (IF Head(summaries).assessment_id \in componentLess
          THEN << >> ELSE << Head(summaries) >>)
         \o FromComponents(Tail(summaries), componentLess)

\* C18 (as stated in the specification): after grouping no two buckets share
\* a component_id; the buckets that hold component summaries appear in the
\* order their component id was first seen in the Joined Records' component
\* lists, with the component name and area of that first occurrence; and the
\* component summaries of the bucket for id c are the occurrences of c, one
\* each, in encounter order.
C18_BucketsByFirstOccurrence ==
    pc = "done" =>
        LET g == out.per_dashboard_data.assessments
            occ == Occurrences(out.map_data)
            first == FirstSeen(occ, { })
            componentLess ==
                { out.map_data[i].id : i \in
                    { n \in 1..Len(out.map_data) : out.map_data[n].components = << >> } }
            real == SelectSeq(g, LAMBDA b :
                        FromComponents(b.assessments, componentLess) # << >>)
        IN  /\ \A i, j \in 1..Len(g) :
                   i # j => g[i].component_id # g[j].component_id
            /\ Len(real) = Len(first)
            /\ \A i \in 1..Len(real) :
                   /\ Metadata(real[i])
                        = << first[i].component.component_id,
                             first[i].component.component_name,
                             first[i].component.area_id,
                             first[i].component.area_name >>
                   /\ FromComponents(real[i].assessments, componentLess)
                        = SummariesOf(occ, real[i].component_id)

\* C20 (as stated in the specification): for every Joined Record whose
\* assessment key matches at least one Assessment Record, one of the matching
\* records yields both the dashboard components and the four consideration
\* flags of the Joined Record, also when several records have the same id.
C20_SameAssessmentRecord ==
    \A i \in 1..Len(joined_data) :
        LET records == target_dir.assessments.results
            M == Matching(records, GetI(StatusResults[i].assessment))
            j == joined_data[i]
        IN  M # { } =>
              \E k \in M :
                 /\ j.components = DashboardAssessments(<< records[k] >>)[1].components
                 /\ j.epi_considerations
                      = AnyAffirmative(records[k], "epi_considerations")
                 /\ j.climate_environmental_considerations
                      = AnyAffirmative(records[k],
                                       "climate_environmental_considerations")
                 /\ j.urban_considerations
                      = AnyAffirmative(records[k], "urban_considerations")
                 /\ j.migration_considerations
                      = AnyAffirmative(records[k], "migration_considerations")

\* the results of the pages reached from url by following 'next'
RECURSIVE ChainResults(_)
ChainResults(url) ==
    IF url = 0 \/ server[url].kind # "page" THEN << >>
    ELSE server[url].results \o ChainResults(server[url].next)

\* a request of the chain from url fails
RECURSIVE ChainFails(_)
ChainFails(url) ==
    /\ url # 0
    /\ \/ server[url].kind = "error"
       \/ server[url].kind = "page" /\ ChainFails(server[url].next)

\* C19 (as stated in the specification): fetch_paginated_data returns the
\* concatenation, in page order, of the results of all pages of the chain of
\* 'next' links that starts at the base URL, and it raises only when a
\* request of that chain fails.
C19_AllPagesOrRaise ==
    /\ fetch_pc = "returned" => all_results = ChainResults(1)
    /\ fetch_pc = "raised" => ChainFails(1)

=============================================================================
